---- MODULE Spec2Model ----
(***************************************************************************)
(* Model of src/process.rs of systemd-cron-next: the crontab directory and *)
(* file walkers (process_crontab_dir, process_crontab_file), the schedule  *)
(* translator (generate_systemd_units) and linearize.                      *)
(*                                                                         *)
(* Override values (the strings of the env map) are sequences of           *)
(* one-character strings, so that matching, splitting and parsing are done *)
(* character by character as the code does.  Produced expressions are TLA+ *)
(* strings built by concatenation, as format! builds them.                 *)
(***************************************************************************)
EXTENDS Integers, Sequences, FiniteSets

VARIABLES
    \* process_crontab_dir / process_crontab_file
    pc,          \* position of the directory walker
    walk,        \* what walk_dir yields: a directory error or a sequence of items
    files,       \* the collected Vec<PathBuf> (indices into walk)
    fileIdx,     \* index in files of the file being processed
    env,         \* the BTreeMap of the file being processed
    history,     \* entries the CrontabFile iterator has yielded for this file
    translated,  \* info! records of the generate_systemd_units calls of this file
    opened,      \* walk indices whose CrontabFile was opened and iterated
    dropped,     \* the map of the previous file, dropped when its closure ended
    \* generate_systemd_units taken alone
    gpc, gentry, genv, gres,
    \* linearize taken alone
    lpc, ldom, linput, loutput

vars == <<pc, walk, files, fileIdx, env, history, translated, opened, dropped,
          gpc, gentry, genv, gres, lpc, ldom, linput, loutput>>

dirVars == <<pc, walk, files, fileIdx, env, history, translated, opened, dropped>>
genVars == <<gpc, gentry, genv, gres>>
linVars == <<lpc, ldom, linput, loutput>>

(***************************************************************************)
(* Bounds of the model                                                     *)
(***************************************************************************)
MaxFiles == 2
MaxEntries == 4
MaxIntervals == 2
MaxSpan == 1
MaxStep == 2

(***************************************************************************)
(* Option, strings, integer parsing and display                            *)
(***************************************************************************)
None == <<>>
Some(x) == <<x>>
IsSome(o) == o # <<>>
Unwrap(o) == o[1]

Digits == <<"0", "1", "2", "3", "4", "5", "6", "7", "8", "9">>

IsDigit(c) == \E i \in 1..10 : Digits[i] = c

DigitVal(c) == (CHOOSE i \in 1..10 : Digits[i] = c) - 1

RECURSIVE ParseDigits(_, _)
ParseDigits(s, acc) ==
    IF s = <<>> THEN acc
    ELSE ParseDigits(Tail(s), acc * 10 + DigitVal(Head(s)))

\* str::parse::<u64>(): a non-empty run of decimal digits, anything else is an
\* error (.ok() turns it into None).  Values stay far below 2^64 here.
ParseU64(s) ==
    IF s = <<>> \/ \E i \in 1..Len(s) : ~IsDigit(s[i])
    THEN None
    ELSE Some(ParseDigits(s, 0))

\* Display of an unsigned integer, as format!("{}", n) renders it.
RECURSIVE ToStr(_)
ToStr(n) ==
    IF n < 10 THEN Digits[n + 1]
    ELSE ToStr(n \div 10) \o Digits[(n % 10) + 1]

\* Index of the first occurrence of character c in s, 0 when there is none.
FirstIndex(s, c) ==
    IF \E i \in 1..Len(s) : s[i] = c
    THEN CHOOSE i \in 1..Len(s) : s[i] = c /\ \A j \in 1..(i - 1) : s[j] # c
    ELSE 0

\* str::splitn(count, pat): at most count items, the last one being the
\* remainder of the string (the semantics of Rust 1.0 and later).
RECURSIVE SplitN(_, _, _)
SplitN(count, s, c) ==
    IF count = 0 THEN <<>>
    ELSE IF count = 1 \/ FirstIndex(s, c) = 0 THEN <<s>>
    ELSE <<SubSeq(s, 1, FirstIndex(s, c) - 1)>>
         \o SplitN(count - 1, SubSeq(s, FirstIndex(s, c) + 1, Len(s)), c)

\* Iterator::next() on the pieces.
NextPiece(pieces) == IF pieces = <<>> THEN None ELSE Some(pieces[1])

(***************************************************************************)
(* The override map                                                        *)
(***************************************************************************)
EmptyEnv == [k \in {} |-> <<>>]

\* BTreeMap::get
Get(e, k) == IF k \in DOMAIN e THEN Some(e[k]) ELSE None

\* BTreeMap::insert
Insert(e, k, v) == [x \in (DOMAIN e) \cup {k} |-> IF x = k THEN v ELSE e[x]]

sYes == <<"y", "e", "s">>
sTrue == <<"t", "r", "u", "e">>
sOne == <<"1">>
sAuto == <<"a", "u", "t", "o">>
sEmpty == <<>>
sNo == <<"n", "o">>

(***************************************************************************)
(* Entries and schedules                                                   *)
(***************************************************************************)
PeriodKinds == {"Reboot", "Minutely", "Hourly", "Midnight", "Daily", "Weekly",
                "Monthly", "Quaterly", "Biannually", "Yearly"}

\* A schedule is Period(kind) or Calendar(cal); the unused side is blank.
NoCal == [dows |-> <<>>, mons |-> <<>>, days |-> <<>>, hrs |-> <<>>, mins |-> <<>>]

PeriodOf(kind) == [shape |-> "Period", kind |-> kind, days |-> 0, cal |-> NoCal]
DaysOf(n) == [shape |-> "Period", kind |-> "Days", days |-> n, cal |-> NoCal]
CalendarOf(cal) == [shape |-> "Calendar", kind |-> "", days |-> 0, cal |-> cal]

JobEntry(tag, sched) == [tag |-> tag, sched |-> sched]

\* CrontabEntry::period()
EntryPeriod(entry) ==
    IF entry.sched.shape = "Period" THEN Some(entry.sched) ELSE None

\* CrontabEntry::calendar()
EntryCalendar(entry) ==
    IF entry.sched.shape = "Calendar" THEN Some(entry.sched.cal) ELSE None

(***************************************************************************)
(* Intervals over a bounded domain and linearize                           *)
(***************************************************************************)
Domains == {"dow", "mon", "day", "hr", "min"}

\* Limited::min_value / max_value of the five field types.
MinValue(dom) ==
    CASE dom = "dow" -> 0 [] dom = "mon" -> 1 [] dom = "day" -> 1
      [] dom = "hr" -> 0 [] dom = "min" -> 0

MaxValue(dom) ==
    CASE dom = "dow" -> 6 [] dom = "mon" -> 12 [] dom = "day" -> 31
      [] dom = "hr" -> 23 [] dom = "min" -> 59

Full(step) == [tag |-> "Full", lo |-> 0, hi |-> 0, step |-> step]
Range(lo, hi, step) == [tag |-> "Range", lo |-> lo, hi |-> hi, step |-> step]

\* Interval::iter(): the members of an interval, from its lower end in steps.
Members(iv, dom) ==
    LET lo == IF iv.tag = "Full" THEN MinValue(dom) ELSE iv.lo
        hi == IF iv.tag = "Full" THEN MaxValue(dom) ELSE iv.hi
    IN {v \in lo..hi : (v - lo) % iv.step = 0}

DowNames == <<"Sun", "Mon", "Tue", "Wed", "Thu", "Fri", "Sat">>

\* Display of a field value: weekday names, numbers otherwise.
DisplayValue(dom, v) == IF dom = "dow" THEN DowNames[v + 1] ELSE ToStr(v)

\* BTreeSet::iter(): the elements in ascending order.
InOrder(S) ==
    IF S = {} THEN <<>>
    ELSE LET first == CHOOSE m \in S : \A x \in S : m <= x
             last == CHOOSE m \in S : \A x \in S : x <= m
             In(v) == v \in S
         IN SelectSeq([i \in 1..(last - first + 1) |-> first + i - 1], In)

\* The loop of linearize over the BTreeSet, in ascending order: each part is
\* pushed, followed by a comma.
PushParts(dom, S) ==
    LET ord == InOrder(S)
    IN [j \in 1..(2 * Len(ord)) |->
          IF j % 2 = 1 THEN DisplayValue(dom, ord[(j + 1) \div 2]) ELSE ","]

\* String::pop(): drops the last character, nothing when the string is empty.
Pop(buf) == IF buf = <<>> THEN <<>> ELSE SubSeq(buf, 1, Len(buf) - 1)

\* The string made of the pieces pushed.
RECURSIVE Concat(_)
Concat(buf) ==
    IF Len(buf) = 0 THEN ""
    ELSE IF Len(buf) = 1 THEN buf[1]
    ELSE Concat(SubSeq(buf, 1, Len(buf) \div 2))
         \o Concat(SubSeq(buf, (Len(buf) \div 2) + 1, Len(buf)))

Collect(input, dom) == UNION {Members(input[i], dom) : i \in 1..Len(input)}

\* linearize without the BTreeSet: the parts of each interval in input order.
RECURSIVE FlatParts(_, _)
FlatParts(input, dom) ==
    IF input = <<>> THEN <<>>
    ELSE PushParts(dom, Members(Head(input), dom)) \o FlatParts(Tail(input), dom)

linearize_InputOrder(input, dom) ==
    IF Len(input) = 1 /\ input[1] = Full(1)
    THEN "*"
    ELSE Concat(Pop(FlatParts(input, dom)))

linearize(input, dom) ==
    IF Len(input) = 1 /\ input[1] = Full(1)
    THEN "*"
    ELSE Concat(Pop(PushParts(dom, Collect(input, dom))))

(***************************************************************************)
(* generate_systemd_units                                                  *)
(***************************************************************************)
DefaultPersistent(entry) ==
    \/ entry.tag = "Anacron"
    \/ entry.tag = "User" /\ entry.sched.shape = "Period"
    \/ entry.tag = "System" /\ entry.sched.shape = "Period"

\* The resolution with the empty value not sent to the default.
ResolvePersistent_EmptyIsFalse(entry, e) ==
    LET v == Get(e, "PERSISTENT")
        explicit == IF ~IsSome(v) THEN None
                    ELSE IF Unwrap(v) \in {sYes, sTrue, sOne} THEN Some(TRUE)
                    ELSE IF Unwrap(v) \in {sAuto} THEN None
                    ELSE Some(FALSE)
    IN IF IsSome(explicit) THEN Unwrap(explicit) ELSE DefaultPersistent(entry)

\* let mut persistent = ... (before the schedule is looked at)
ResolvePersistent(entry, e) ==
    LET v == Get(e, "PERSISTENT")
        explicit == IF ~IsSome(v) THEN None
                    ELSE IF Unwrap(v) \in {sYes, sTrue, sOne} THEN Some(TRUE)
                    ELSE IF Unwrap(v) \in {sAuto, sEmpty} THEN None
                    ELSE Some(FALSE)
    IN IF IsSome(explicit) THEN Unwrap(explicit) ELSE DefaultPersistent(entry)

ResolveBatch(e) ==
    LET v == Get(e, "BATCH")
    IN IF IsSome(v) THEN Unwrap(v) \in {sYes, sTrue, sOne} ELSE FALSE

\* and_then(parse).unwrap_or(dflt)
ParseOr(e, k, dflt) ==
    LET v == Get(e, k)
        n == IF IsSome(v) THEN ParseU64(Unwrap(v)) ELSE None
    IN IF IsSome(n) THEN Unwrap(n) ELSE dflt

ResolveRandomDelay(e) == ParseOr(e, "RANDOM_DELAY", 1)

ResolveDelay(e) == ParseOr(e, "DELAY", 0)

ResolveHour(e) ==
    LET v == Get(e, "START_HOURS_RANGE")
        first == IF IsSome(v) THEN NextPiece(SplitN(1, Unwrap(v), "-")) ELSE None
        n == IF IsSome(first) THEN ParseU64(Unwrap(first)) ELSE None
    IN IF IsSome(n) THEN Unwrap(n) ELSE 0

\* "{h}:{d}:0"
At(h, d) == ToStr(h) \o ":" \o ToStr(d) \o ":0"

Shorthand(cond, token, long) == IF cond THEN Some(token) ELSE Some(long)

\* Period::Reboot without the forced non-persistence.
RebootArm_KeepsPersistent(persistent, delay) ==
    [schedule |-> None, persistent |-> persistent,
     delay |-> IF delay = 0 THEN 1 ELSE delay]

\* Period::Reboot
RebootArm(persistent, delay) ==
    [schedule |-> None, persistent |-> FALSE,
     delay |-> IF delay = 0 THEN 1 ELSE delay]

\* Period::Minutely
MinutelyArm(persistent, delay) ==
    [schedule |-> Some("@minutely"), persistent |-> FALSE, delay |-> delay]

\* Period::Days with the threshold one too low.
DaysArm_Over30(days, hour, delay) ==
    IF days > 30
    THEN Some("*-1/" \o ToStr(days \div 30) \o "-1 " \o At(hour, delay))
    ELSE Some("*-*-1/" \o ToStr(days) \o " " \o At(hour, delay))

\* Period::Days(days)
DaysArm(days, hour, delay) ==
    IF days > 31
    THEN Some("*-1/" \o ToStr(days \div 30) \o "-1 " \o At(hour, delay))
    ELSE Some("*-*-1/" \o ToStr(days) \o " " \o At(hour, delay))

\* The period branch: the expression and the (possibly changed) persistent
\* and delay.
PeriodBranch(p, persistent, delay, hour) ==
    LET keep(s) == [schedule |-> s, persistent |-> persistent, delay |-> delay]
        both == delay = 0 /\ hour = 0
    IN CASE p.kind = "Reboot" -> RebootArm(persistent, delay)
         [] p.kind = "Minutely" -> MinutelyArm(persistent, delay)
         [] p.kind = "Hourly" ->
              keep(Shorthand(delay = 0, "@hourly", "*-*-* *:" \o ToStr(delay) \o ":0"))
         [] p.kind = "Midnight" ->
              keep(Shorthand(delay = 0, "@daily", "*-*-* 0:" \o ToStr(delay) \o ":0"))
         [] p.kind = "Daily" ->
              keep(Shorthand(both, "@daily", "*-*-* " \o At(hour, delay)))
         [] p.kind = "Weekly" ->
              keep(Shorthand(both, "@weekly", "Mon *-*-* " \o At(hour, delay)))
         [] p.kind = "Monthly" ->
              keep(Shorthand(both, "@monthly", "*-*-1 " \o At(hour, delay)))
         [] p.kind = "Quaterly" ->
              keep(Shorthand(both, "@quaterly", "*-1,4,7,10-1 " \o At(hour, delay)))
         [] p.kind = "Biannually" ->
              keep(Shorthand(both, "@semi-annually", "*-1,7-1 " \o At(hour, delay)))
         [] p.kind = "Yearly" ->
              keep(Shorthand(both, "@yearly", "*-1-1 " \o At(hour, delay)))
         [] p.kind = "Days" -> keep(DaysArm(p.days, hour, delay))

\* The calendar branch with the month and day lists exchanged.
CalendarBranch_DayMonthSwapped(cal) ==
    Some(linearize(cal.dows, "dow") \o " *-" \o linearize(cal.days, "day") \o "-"
         \o linearize(cal.mons, "mon") \o " " \o linearize(cal.hrs, "hr") \o ":"
         \o linearize(cal.mins, "min") \o ":00")

\* The calendar branch (the or_else closure).
CalendarBranch(cal) ==
    Some(linearize(cal.dows, "dow") \o " *-" \o linearize(cal.mons, "mon") \o "-"
         \o linearize(cal.days, "day") \o " " \o linearize(cal.hrs, "hr") \o ":"
         \o linearize(cal.mins, "min") \o ":00")

\* The values generate_systemd_units holds when it prints the schedule;
\* persistent0 and delay0 are persistent and delay as resolved from the map,
\* before the match on the period.
generate_systemd_units(entry, e) ==
    LET persistent == ResolvePersistent(entry, e)
        batch == ResolveBatch(e)
        random_delay == ResolveRandomDelay(e)
        delay == ResolveDelay(e)
        hour == ResolveHour(e)
        period == EntryPeriod(entry)
        cal == EntryCalendar(entry)
        pb == IF IsSome(period)
              THEN PeriodBranch(Unwrap(period), persistent, delay, hour)
              ELSE [schedule |-> None, persistent |-> persistent, delay |-> delay]
        schedule == IF IsSome(pb.schedule) THEN pb.schedule
                    ELSE IF IsSome(cal) THEN CalendarBranch(Unwrap(cal))
                    ELSE None
    IN [schedule |-> schedule, persistent |-> pb.persistent, batch |-> batch,
        random_delay |-> random_delay, delay |-> pb.delay, hour |-> hour,
        persistent0 |-> persistent, delay0 |-> delay]

(***************************************************************************)
(* Inputs                                                                  *)
(***************************************************************************)
Keys == {"PERSISTENT", "BATCH", "RANDOM_DELAY", "DELAY", "START_HOURS_RANGE"}

\* An override map from one optional value per key.
MkEnv(p, b, r, d, h) ==
    LET o == [k \in Keys |->
                CASE k = "PERSISTENT" -> p [] k = "BATCH" -> b
                  [] k = "RANDOM_DELAY" -> r [] k = "DELAY" -> d
                  [] k = "START_HOURS_RANGE" -> h]
    IN [k \in {x \in Keys : IsSome(o[x])} |-> Unwrap(o[k])]

Opt(S) == {None} \cup {Some(v) : v \in S}

PersistentVals == {sYes, sTrue, sOne, sAuto, sEmpty, sNo, <<"0">>}
BatchVals == {sYes, sNo}
RandomDelayVals == {<<"7">>, <<"x">>}
DelayVals == {<<"0">>, <<"5">>, <<"3", "0">>, <<"x">>}
HourVals == {<<"0">>, <<"6">>, <<"6", "-", "1", "0">>, <<"0", "-", "5">>,
             <<"-", "3">>, <<"x">>}

Envs ==
    {MkEnv(p, b, r, d, h) : p \in Opt(PersistentVals), b \in Opt(BatchVals),
                            r \in Opt(RandomDelayVals), d \in Opt(DelayVals),
                            h \in Opt(HourVals)}

\* The calendar branch reads no delay or hour: its maps vary PERSISTENT and DELAY.
CalEnvs ==
    {MkEnv(p, None, None, d, None) : p \in Opt(PersistentVals),
                                     d \in Opt({<<"5">>})}

Tags == {"Anacron", "User", "System"}
DaysVals == {1, 7, 30, 31, 32, 59, 60, 365}

PeriodEntries ==
    {JobEntry(t, PeriodOf(k)) : t \in Tags, k \in PeriodKinds}
    \cup {JobEntry(t, DaysOf(n)) : t \in Tags, n \in DaysVals}

Wild == <<Full(1)>>

CalendarSpecs ==
    {[dows |-> a, mons |-> b, days |-> c, hrs |-> d, mins |-> e] :
        a \in {Wild, <<Range(1, 5, 1)>>},
        b \in {Wild, <<Range(1, 5, 2)>>, <<Range(5, 5, 1), Range(1, 3, 2)>>},
        c \in {Wild, <<Range(15, 15, 1), Range(1, 1, 1)>>},
        d \in {Wild, <<Range(9, 9, 1)>>},
        e \in {Wild, <<Full(30)>>}}

CalendarEntries ==
    {JobEntry(t, CalendarOf(c)) : t \in {"User", "System"}, c \in CalendarSpecs}

NoResult ==
    [schedule |-> None, persistent |-> FALSE, batch |-> FALSE,
     random_delay |-> 0, delay |-> 0, hour |-> 0,
     persistent0 |-> FALSE, delay0 |-> 0]

IdleEntry == JobEntry("User", PeriodOf("Daily"))

\* Intervals with both ends within MaxSpan of the domain's minimum.
IntervalsOf(dom) ==
    LET top == IF MinValue(dom) + MaxSpan <= MaxValue(dom)
               THEN MinValue(dom) + MaxSpan ELSE MaxValue(dom)
        ranges == {Range(lo, hi, st) : lo \in MinValue(dom)..top,
                                       hi \in MinValue(dom)..top, st \in 1..MaxStep}
    IN {Full(st) : st \in 1..MaxStep} \cup {iv \in ranges : iv.lo <= iv.hi}

IntervalLists(dom) ==
    UNION {[1..n -> IntervalsOf(dom)] : n \in 1..MaxIntervals}

(***************************************************************************)
(* generate_systemd_units taken alone                                      *)
(***************************************************************************)
DirIdle ==
    /\ pc = "done"
    /\ walk = [err |-> TRUE, items |-> <<>>]
    /\ files = <<>>
    /\ fileIdx = 0
    /\ env = EmptyEnv
    /\ history = <<>>
    /\ translated = <<>>
    /\ opened = {}
    /\ dropped = EmptyEnv

GenIdle ==
    /\ gpc = "done"
    /\ gentry = IdleEntry
    /\ genv = EmptyEnv
    /\ gres = NoResult

LinIdle ==
    /\ lpc = "done"
    /\ ldom = "hr"
    /\ linput = Wild
    /\ loutput = ""

GenInit ==
    /\ gpc = "call"
    /\ gres = NoResult
    /\ \/ gentry \in PeriodEntries /\ genv \in Envs
       \/ gentry \in CalendarEntries /\ genv \in CalEnvs
    /\ DirIdle
    /\ LinIdle

GenCall ==
    /\ gpc = "call"
    /\ gres' = generate_systemd_units(gentry, genv)
    /\ gpc' = "done"
    /\ UNCHANGED <<gentry, genv>>
    /\ UNCHANGED dirVars
    /\ UNCHANGED linVars

GenNext == GenCall

SpecGen == GenInit /\ [][GenNext]_vars

(***************************************************************************)
(* linearize taken alone                                                   *)
(***************************************************************************)
LinInit ==
    /\ lpc = "call"
    /\ ldom \in Domains
    /\ linput \in IntervalLists(ldom)
    /\ loutput = ""
    /\ DirIdle
    /\ GenIdle

LinCall ==
    /\ lpc = "call"
    /\ loutput' = linearize(linput, ldom)
    /\ lpc' = "done"
    /\ UNCHANGED <<ldom, linput>>
    /\ UNCHANGED dirVars
    /\ UNCHANGED genVars

LinNext == LinCall

SpecLin == LinInit /\ [][LinNext]_vars

(***************************************************************************)
(* process_crontab_dir and process_crontab_file                            *)
(***************************************************************************)
\* What the directory iterator yields for one path: a crontab file that can
\* be opened, a file CrontabFile::new fails on, a path that is no file, or
\* an error in place of the path.
ItemKinds == {"file", "badfile", "dir", "err"}

Walks ==
    {[err |-> TRUE, items |-> <<>>]}
    \cup {[err |-> FALSE, items |-> it] :
            it \in UNION {[1..n -> ItemKinds] : n \in 0..MaxFiles}}

\* What the CrontabFile iterator yields.
Yield(kind, name, value, job) ==
    [kind |-> kind, name |-> name, value |-> value, job |-> job]

Directives ==
    {Yield("EnvVar", "DELAY", <<"5">>, IdleEntry),
     Yield("EnvVar", "DELAY", <<"7">>, IdleEntry),
     Yield("EnvVar", "START_HOURS_RANGE", <<"6">>, IdleEntry)}

FileJobs == {JobEntry("User", PeriodOf("Daily"))}

JobYield(job) == Yield("Job", "", <<>>, job)
IoError == Yield("ErrIo", "", <<>>, IdleEntry)
ParseError == Yield("ErrParse", "", <<>>, IdleEntry)

\* The filter of process_crontab_dir: paths that are files, and errors.
Kept(items) == {i \in 1..Len(items) : items[i] # "dir"}

RECURSIVE Ascending(_)
Ascending(S) ==
    IF S = {} THEN <<>>
    ELSE Ascending(S \ {CHOOSE m \in S : \A x \in S : x <= m})
         \o <<CHOOSE m \in S : \A x \in S : x <= m>>

DirInit ==
    /\ pc = "start"
    /\ walk \in Walks
    /\ files = <<>>
    /\ fileIdx = 0
    /\ env = EmptyEnv
    /\ history = <<>>
    /\ translated = <<>>
    /\ opened = {}
    /\ dropped = EmptyEnv
    /\ GenIdle
    /\ LinIdle

\* walk_dir(..).and_then(.. filter .. collect::<Result<Vec<_>, _>>()) and the
\* match on it: one error, of the directory or of any item, is the result.
WalkDir ==
    /\ pc = "start"
    /\ IF walk.err \/ \E i \in 1..Len(walk.items) : walk.items[i] = "err"
       THEN pc' = "done" /\ UNCHANGED <<files, fileIdx>>
       ELSE pc' = "file" /\ files' = Ascending(Kept(walk.items)) /\ fileIdx' = 1
    /\ UNCHANGED <<walk, env, history, translated, opened, dropped>>
    /\ UNCHANGED genVars
    /\ UNCHANGED linVars

\* The for loop is at its end.
DirDone ==
    /\ pc = "file"
    /\ fileIdx > Len(files)
    /\ pc' = "done"
    /\ UNCHANGED <<walk, files, fileIdx, env, history, translated, opened, dropped>>
    /\ UNCHANGED genVars
    /\ UNCHANGED linVars

\* process_crontab_file: CrontabFile::new fails, error! and return.
OpenFails ==
    /\ pc = "file"
    /\ fileIdx <= Len(files)
    /\ walk.items[files[fileIdx]] = "badfile"
    /\ fileIdx' = fileIdx + 1
    /\ UNCHANGED <<pc, walk, files, env, history, translated, opened, dropped>>
    /\ UNCHANGED genVars
    /\ UNCHANGED linVars

\* The closure starting with the map the previous file left.
OpenFile_KeepsMap ==
    /\ pc = "file"
    /\ fileIdx <= Len(files)
    /\ walk.items[files[fileIdx]] = "file"
    /\ env' = dropped
    /\ history' = <<>>
    /\ translated' = <<>>
    /\ opened' = opened \cup {files[fileIdx]}
    /\ pc' = "entries"
    /\ UNCHANGED <<walk, files, fileIdx, dropped>>
    /\ UNCHANGED genVars
    /\ UNCHANGED linVars

\* process_crontab_file: CrontabFile::new succeeds and the closure starts
\* with a new map.
OpenFile ==
    /\ pc = "file"
    /\ fileIdx <= Len(files)
    /\ walk.items[files[fileIdx]] = "file"
    /\ env' = EmptyEnv
    /\ history' = <<>>
    /\ translated' = <<>>
    /\ opened' = opened \cup {files[fileIdx]}
    /\ pc' = "entries"
    /\ UNCHANGED <<walk, files, fileIdx, dropped>>
    /\ UNCHANGED genVars
    /\ UNCHANGED linVars

\* Ok(CrontabEntry::EnvVar(EnvVarEntry(name, value)))
EnvVarEntry ==
    /\ pc = "entries"
    /\ Len(history) < MaxEntries
    /\ \E d \in Directives :
          /\ history' = Append(history, d)
          /\ env' = Insert(env, d.name, d.value)
    /\ UNCHANGED <<pc, walk, files, fileIdx, translated, opened, dropped>>
    /\ UNCHANGED genVars
    /\ UNCHANGED linVars

\* The translation writing the delay it used back into the map.
JobEntryStep_WritesMap ==
    /\ pc = "entries"
    /\ Len(history) < MaxEntries
    /\ \E job \in FileJobs :
          /\ history' = Append(history, JobYield(job))
          /\ translated' = Append(translated,
                                  [at |-> Len(history) + 1, entry |-> job, env |-> env,
                                   res |-> generate_systemd_units(job, env)])
          /\ env' = Insert(env, "DELAY", <<"1">>)
    /\ UNCHANGED <<pc, walk, files, fileIdx, opened, dropped>>
    /\ UNCHANGED genVars
    /\ UNCHANGED linVars

\* Ok(data): generate_systemd_units(data, &env, ..), which logs the entry and
\* the map with info! and prints the schedule.
JobEntryStep ==
    /\ pc = "entries"
    /\ Len(history) < MaxEntries
    /\ \E job \in FileJobs :
          /\ history' = Append(history, JobYield(job))
          /\ translated' = Append(translated,
                                  [at |-> Len(history) + 1, entry |-> job, env |-> env,
                                   res |-> generate_systemd_units(job, env)])
    /\ UNCHANGED <<pc, walk, files, fileIdx, env, opened, dropped>>
    /\ UNCHANGED genVars
    /\ UNCHANGED linVars

\* Err(.. kind: Io ..) and Err(.. kind: Parse ..): warn! and go on.
EntryError ==
    /\ pc = "entries"
    /\ Len(history) < MaxEntries
    /\ \E e \in {IoError, ParseError} : history' = Append(history, e)
    /\ UNCHANGED <<pc, walk, files, fileIdx, env, translated, opened, dropped>>
    /\ UNCHANGED genVars
    /\ UNCHANGED linVars

\* The iterator is exhausted: the closure ends, its map is dropped, and the
\* for loop of process_crontab_dir moves on.
EndOfFile ==
    /\ pc = "entries"
    /\ dropped' = env
    /\ env' = EmptyEnv
    /\ fileIdx' = fileIdx + 1
    /\ pc' = "file"
    /\ UNCHANGED <<walk, files, history, translated, opened>>
    /\ UNCHANGED genVars
    /\ UNCHANGED linVars

Init == DirInit

Next ==
    \/ WalkDir
    \/ DirDone
    \/ OpenFails
    \/ OpenFile
    \/ EnvVarEntry
    \/ JobEntryStep
    \/ EntryError
    \/ EndOfFile

Spec == Init /\ [][Next]_vars

(***************************************************************************)
(* Properties of generate_systemd_units (checked under SpecGen)            *)
(***************************************************************************)
IsPeriod(entry, kind) == entry.sched.shape = "Period" /\ entry.sched.kind = kind

\* C1: for a Period Reboot entry, under every override map, there is no
\* calendar expression, the final persistence flag is false, and the
\* effective delay is 1 when DELAY resolved to 0 and the resolved DELAY
\* otherwise.
C1_Reboot ==
    (gpc = "done" /\ IsPeriod(gentry, "Reboot")) =>
        /\ gres.schedule = None
        /\ gres.persistent = FALSE
        /\ (gres.delay0 = 0 => gres.delay = 1)
        /\ (gres.delay0 # 0 => gres.delay = gres.delay0)

C1_Witness ==
    /\ gpc = "done"
    /\ IsPeriod(gentry, "Reboot")
    /\ Get(genv, "PERSISTENT") = Some(sYes)
    /\ Get(genv, "DELAY") = None
    /\ gres.persistent0 = TRUE
    /\ gres.persistent = FALSE
    /\ gres.delay = 1

\* The documented shorthand tokens.
DocumentedToken(kind) ==
    CASE kind = "Minutely" -> "@minutely"
      [] kind = "Hourly" -> "@hourly"
      [] kind = "Midnight" -> "@daily"
      [] kind = "Daily" -> "@daily"
      [] kind = "Weekly" -> "@weekly"
      [] kind = "Monthly" -> "@monthly"
      [] kind = "Quaterly" -> "@quarterly"
      [] kind = "Biannually" -> "@semi-annually"
      [] kind = "Yearly" -> "@yearly"

UsesHour(kind) == kind \notin {"Minutely", "Hourly", "Midnight"}

\* C2: for every period kind other than Days and Reboot, with the resolved
\* delay 0 and (for the kinds that use it) the resolved hour 0, the expression
\* is exactly the documented shorthand token.
C2_Shorthand ==
    (/\ gpc = "done"
     /\ gentry.sched.shape = "Period"
     /\ gentry.sched.kind \notin {"Days", "Reboot"}
     /\ gres.delay0 = 0
     /\ (UsesHour(gentry.sched.kind) => gres.hour = 0)) =>
        gres.schedule = Some(DocumentedToken(gentry.sched.kind))

\* The persistence flag the specification gives for an entry and a map.
DocumentedPersistent(entry, e) ==
    IF "PERSISTENT" \in DOMAIN e /\ e["PERSISTENT"] \in {sYes, sTrue, sOne}
    THEN TRUE
    ELSE IF "PERSISTENT" \notin DOMAIN e \/ e["PERSISTENT"] \in {sEmpty, sAuto}
    THEN \/ entry.tag = "Anacron"
         \/ entry.tag \in {"User", "System"} /\ entry.sched.shape = "Period"
    ELSE FALSE

\* C3: the resolved persistence flag is true for PERSISTENT yes/true/1; for
\* PERSISTENT absent, empty or auto it is true exactly for an Anacron entry or
\* a User/System entry with a Period schedule; it is false for any other
\* value.  A User entry with Period Weekly and no overrides gives @weekly,
\* persistent true, batch false, delay 0.
C3_Persistent ==
    gpc = "done" =>
        /\ gres.persistent0 = DocumentedPersistent(gentry, genv)
        /\ (gentry = JobEntry("User", PeriodOf("Weekly")) /\ genv = EmptyEnv) =>
              /\ gres.schedule = Some("@weekly")
              /\ gres.persistent = TRUE
              /\ gres.batch = FALSE
              /\ gres.delay = 0

C3_Witness ==
    /\ gpc = "done"
    /\ gentry.tag = "System"
    /\ gentry.sched.shape = "Calendar"
    /\ Get(genv, "PERSISTENT") = Some(sEmpty)
    /\ gres.persistent0 = FALSE

\* The part of a value before its first '-' (all of it when there is none).
BeforeDash(v) ==
    IF FirstIndex(v, "-") = 0 THEN v ELSE SubSeq(v, 1, FirstIndex(v, "-") - 1)

DocumentedHour(e) ==
    IF "START_HOURS_RANGE" \notin DOMAIN e THEN 0
    ELSE IF IsSome(ParseU64(BeforeDash(e["START_HOURS_RANGE"])))
    THEN Unwrap(ParseU64(BeforeDash(e["START_HOURS_RANGE"])))
    ELSE 0

\* C4: the start-hour hint is the non-negative integer before the first '-'
\* of START_HOURS_RANGE (a Daily entry with "6-10" and delay 0 is rendered at
\* hour 6, not as @daily), and 0 when the key is absent or that part is no
\* non-negative integer.
C4_StartHour ==
    gpc = "done" =>
        /\ gres.hour = DocumentedHour(genv)
        /\ (/\ IsPeriod(gentry, "Daily")
            /\ Get(genv, "START_HOURS_RANGE") = Some(<<"6", "-", "1", "0">>)
            /\ gres.delay0 = 0) => gres.schedule = Some("*-*-* 6:0:0")

ShorthandTokens ==
    {"@minutely", "@hourly", "@daily", "@weekly", "@monthly", "@quaterly",
     "@quarterly", "@semi-annually", "@yearly"}

\* C9: for Period Days(n), n > 31 gives "every floor(n/30) months on day 1 at
\* h:d" with a divisor of at least 1, n <= 31 gives "every n days of the
\* month at h:d" with n undivided; the persistence flag is unchanged and no
\* shorthand token is produced.
C9_Days ==
    (gpc = "done" /\ IsPeriod(gentry, "Days")) =>
        LET n == gentry.sched.days
            at == ToStr(gres.hour) \o ":" \o ToStr(gres.delay) \o ":0"
        IN /\ n > 31 => /\ n \div 30 >= 1
                        /\ gres.schedule =
                              Some("*-1/" \o ToStr(n \div 30) \o "-1 " \o at)
           /\ n <= 31 => gres.schedule = Some("*-*-1/" \o ToStr(n) \o " " \o at)
           /\ (n = 31 /\ genv = EmptyEnv) => gres.schedule = Some("*-*-1/31 0:0:0")
           /\ (n = 32 /\ genv = EmptyEnv) => gres.schedule = Some("*-1/1-1 0:0:0")
           /\ (n = 365 /\ genv = EmptyEnv) => gres.schedule = Some("*-1/12-1 0:0:0")
           /\ gres.persistent = gres.persistent0
           /\ gres.delay = gres.delay0
           /\ gres.schedule \notin {Some(t) : t \in ShorthandTokens}

C9_Witness ==
    /\ gpc = "done"
    /\ gentry = JobEntry("Anacron", DaysOf(60))
    /\ Get(genv, "START_HOURS_RANGE") = Some(<<"6">>)
    /\ Get(genv, "DELAY") = Some(<<"5">>)
    /\ gres.schedule = Some("*-1/2-1 6:5:0")

(***************************************************************************)
(* Properties of linearize and of the calendar branch                      *)
(***************************************************************************)
\* The members of a set of field values, each once, in ascending order.
RECURSIVE AscendingSeq(_)
AscendingSeq(S) ==
    IF S = {} THEN <<>>
    ELSE LET top == CHOOSE m \in S : \A x \in S : x <= m
         IN Append(AscendingSeq(S \ {top}), top)

\* The displayed values separated by commas, with no trailing separator.
RECURSIVE JoinComma(_, _)
JoinComma(dom, seq) ==
    IF seq = <<>> THEN ""
    ELSE IF Len(seq) = 1 THEN DisplayValue(dom, seq[1])
    ELSE JoinComma(dom, SubSeq(seq, 1, Len(seq) \div 2)) \o ","
         \o JoinComma(dom, SubSeq(seq, (Len(seq) \div 2) + 1, Len(seq)))

UnionOf(input, dom) ==
    {v \in MinValue(dom)..MaxValue(dom) :
        \E i \in 1..Len(input) : v \in Members(input[i], dom)}

\* The list the specification gives for one calendar field.
DocumentedList(input, dom) ==
    IF input = <<Full(1)>> THEN "*"
    ELSE JoinComma(dom, AscendingSeq(UnionOf(input, dom)))

Orderings(n) == {f \in [1..n -> 1..n] : \A i, j \in 1..n : f[i] = f[j] => i = j}

Permuted(input, f) == [i \in 1..Len(input) |-> input[f[i]]]

\* C7: every permutation of the interval list gives the same output string,
\* and an output that is an enumeration holds each member of the union of the
\* intervals exactly once, ascending, comma-separated, with no trailing
\* separator.
C7_Linearize ==
    lpc = "done" =>
        /\ \A f \in Orderings(Len(linput)) :
              linearize(Permuted(linput, f), ldom) = loutput
        /\ loutput # "*" =>
              loutput = JoinComma(ldom, AscendingSeq(UnionOf(linput, ldom)))

C7_Witness ==
    /\ lpc = "done"
    /\ ldom = "hr"
    /\ linput = <<Range(1, 1, 1), Range(0, 1, 1)>>
    /\ loutput = "0,1"

ExampleCalendar ==
    [dows |-> Wild, mons |-> <<Range(5, 5, 1), Range(1, 3, 2)>>, days |-> Wild,
     hrs |-> <<Range(9, 9, 1)>>, mins |-> <<Full(30)>>]

\* C8: for a Calendar schedule the expression is
\* "<dow-list> *-<month-list>-<day-list> <hour-list>:<minute-list>:00", each
\* list the linearization of its own field; no shorthand is produced and the
\* resolved persistence flag is not changed.  Day-of-week wildcard, months
\* {1,3,5}, day wildcard, hour {9}, minutes {0,30} give "* *-1,3,5-* 9:0,30:00".
C8_Calendar ==
    (gpc = "done" /\ gentry.sched.shape = "Calendar") =>
        LET c == gentry.sched.cal
        IN /\ gres.schedule =
                Some(DocumentedList(c.dows, "dow") \o " *-"
                     \o DocumentedList(c.mons, "mon") \o "-"
                     \o DocumentedList(c.days, "day") \o " "
                     \o DocumentedList(c.hrs, "hr") \o ":"
                     \o DocumentedList(c.mins, "min") \o ":00")
           /\ gres.schedule \notin {Some(t) : t \in ShorthandTokens}
           /\ gres.persistent = gres.persistent0
           /\ c = ExampleCalendar => gres.schedule = Some("* *-1,3,5-* 9:0,30:00")

C8_Witness ==
    /\ gpc = "done"
    /\ gentry = JobEntry("User", CalendarOf(ExampleCalendar))
    /\ Get(genv, "PERSISTENT") = Some(sYes)
    /\ gres.persistent = TRUE
    /\ gres.schedule = Some("* *-1,3,5-* 9:0,30:00")

(***************************************************************************)
(* Properties of process_crontab_dir and process_crontab_file              *)
(***************************************************************************)
IsDirective(h, j, k) == h[j].kind = "EnvVar" /\ h[j].name = k

\* The overrides given by the directives of h before position at: for each
\* key the value of the last directive for it.
Preceding(h, at) ==
    [k \in {x \in Keys : \E j \in 1..(at - 1) : IsDirective(h, j, x)} |->
        h[CHOOSE j \in 1..(at - 1) :
              /\ IsDirective(h, j, k)
              /\ \A l \in (j + 1)..(at - 1) : ~IsDirective(h, l, k)].value]

\* C5: in one file every job entry is translated with exactly the overrides
\* of the directives that precede it in that file, the last directive for a
\* key winning; later directives and the directives of other files do not
\* affect it.
C5_Overrides ==
    /\ \A j \in 1..Len(history) :
          history[j].kind = "Job" => \E i \in 1..Len(translated) : translated[i].at = j
    /\ \A i \in 1..Len(translated) :
          LET t == translated[i]
          IN /\ t.at <= Len(history)
             /\ history[t.at] = JobYield(t.entry)
             /\ t.env = Preceding(history, t.at)
             /\ t.res = generate_systemd_units(t.entry, Preceding(history, t.at))

C5_Witness ==
    /\ pc = "entries"
    /\ fileIdx = 2
    /\ dropped = Insert(EmptyEnv, "START_HOURS_RANGE", <<"6">>)
    /\ Len(history) = 4
    /\ history[1].value = <<"5">>
    /\ history[2].value = <<"7">>
    /\ history[3].kind = "Job"
    /\ history[4].value = <<"5">>
    /\ translated[1].res.schedule = Some("*-*-* 0:7:0")
    /\ env = Insert(EmptyEnv, "DELAY", <<"5">>)

\* C6: one bad entry or file never aborts the rest: every job entry that
\* follows an entry-level error is still translated, and every readable file
\* of the directory is still processed when another file cannot be opened,
\* parsed or listed.
C6_NoAbort ==
    /\ \A j \in 1..Len(history) :
          history[j].kind = "Job" => \E i \in 1..Len(translated) : translated[i].at = j
    /\ pc = "done" =>
          \A i \in 1..Len(walk.items) : walk.items[i] = "file" => i \in opened

\* C10 as stated: once the first job entry of the file has been translated,
\* the override map is not modified again while the file is processed.
C10_ReadOnlyAfterFirstJob ==
    [][(pc = "entries" /\ pc' = "entries" /\ translated # <<>>) => env' = env]_vars

\* C10 as amended: while a file is processed the override map is modified
\* only by a directive line, never by a translation call; a directive line
\* modifies it also after the first job entry has been translated.
C10_OnlyDirectivesWrite ==
    [][(pc = "entries" /\ pc' = "entries" /\ env' # env) =>
          /\ Len(history') = Len(history) + 1
          /\ history'[Len(history')].kind = "EnvVar"
          /\ env' = Insert(env, history'[Len(history')].name,
                           history'[Len(history')].value)
          /\ translated' = translated]_vars

C10_Witness ==
    /\ pc = "entries"
    /\ translated # <<>>
    /\ history[Len(history)].kind = "EnvVar"
    /\ env # translated[Len(translated)].env

====
